---------------------------- MODULE Spec2Model ----------------------------
(***************************************************************************)
(* Model of src/main.py: the /processar_cupom handler of the receipt       *)
(* processor.  The handler writes the upload to one fixed temp path, asks  *)
(* the vision model about it, strips a markdown fence from the reply,      *)
(* decodes the reply as JSON, cross-checks the items' sum against the      *)
(* declared total in binary floating point, answers, and unlinks the temp  *)
(* path.                                                                   *)
(*                                                                         *)
(* Text is a sequence of one-character strings.  Decoded JSON is a tagged  *)
(* record.  A Python float is modelled exactly: an IEEE-754 double that is *)
(* a multiple of 2^-60, held as a sign and base-2^15 limbs.                *)
(***************************************************************************)
EXTENDS Integers, Sequences, FiniteSets, TLC

VARIABLES
    reqs,       \* the requests of this run (ids)
    pc,         \* pc[r]: where request r's coroutine stands
    running,    \* the coroutine the event loop is running, 0 when it is idle
    path,       \* the inode TEMP_IMAGE_PATH names, 0 when the path does not exist
    inode,      \* inode[i]: the bytes of file i (files outlive their unlink while open)
    fd,         \* fd[r]: the inode request r's buffer is open on, 0 when none
    ctype,      \* ctype[r]: whether request r's content type starts with "image/"
    upload,     \* upload[r]: the bytes of request r's uploaded image
    seen,       \* seen[r]: what the model call of r read at the path ([got, bytes])
    shape,      \* shape[r]: how the model's reply was built (environment bookkeeping)
    conteudo,   \* conteudo[r]: the reply text, as the handler's local of that name
    decoded,    \* decoded[r]: what json.loads returned ([ok, val])
    resultado,  \* resultado[r]: the handler's local of that name
    aviso,      \* aviso[r]: which annotation the cross-check attached
    status,     \* status[r]: HTTP status of the response, 0 while none
    body,       \* body[r]: payload of a 200 response
    cause,      \* cause[r]: what raised into the handler's except clause
    unlinked    \* unlinked[r]: how the finally block's unlink went

vars == <<reqs, pc, running, path, inode, fd, ctype, upload, seen, shape, conteudo,
          decoded, resultado, aviso, status, body, cause, unlinked>>

(***************************************************************************)
(* Bounds of the model.                                                    *)
(***************************************************************************)
MaxCents == 4       \* amounts range over 0.00 .. 0.0MaxCents
MaxItems == 2       \* receipts hold up to MaxItems items
NumRequests == 3    \* overlapping requests in SpecConc
MaxUpload == 2      \* an upload holds 1 .. MaxUpload bytes

(***************************************************************************)
(* Text.                                                                   *)
(***************************************************************************)
Ws == {" ", "\n"}

At(s, i) == IF i >= 1 /\ i <= Len(s) THEN s[i] ELSE ""

RECURSIVE LStrip(_)
LStrip(s) == IF s # <<>> /\ Head(s) \in Ws THEN LStrip(Tail(s)) ELSE s

RECURSIVE RStrip(_)
RStrip(s) ==
    IF s # <<>> /\ s[Len(s)] \in Ws THEN RStrip(SubSeq(s, 1, Len(s) - 1)) ELSE s

\* str.strip()
Strip(s) == RStrip(LStrip(s))

StartsWith(s, p) == Len(s) >= Len(p) /\ SubSeq(s, 1, Len(p)) = p

EndsWith(s, p) == Len(s) >= Len(p) /\ SubSeq(s, Len(s) - Len(p) + 1, Len(s)) = p

\* s[a:-b] of Python, a and b >= 0: an empty slice when the ends cross.
Slice(s, a, b) == SubSeq(s, a + 1, Len(s) - b)

\* The backtick: the module's string syntax has no backtick, "^" stands for it.
Tick == "^"

Fence == <<Tick, Tick, Tick>>
FenceJson == Fence \o <<"j", "s", "o", "n">>

\* Lines 86-89: the fence is cut off the reply and the rest stripped again.
\* Line 86 breaks off after the tagged marker in the source: its test is read
\* as startswith alone, the text that is there; line 88 tests both ends.
StripFence(c) ==
    IF StartsWith(c, FenceJson) THEN Strip(Slice(c, 7, 3))
    ELSE IF StartsWith(c, Fence) /\ EndsWith(c, Fence) THEN Strip(Slice(c, 3, 3))
    ELSE c

(***************************************************************************)
(* Decoded JSON: what json.loads builds.  A number keeps its decimal text  *)
(* as num / 10^k (int: TRUE for a Python int, FALSE for a float); a dict   *)
(* keeps its keys in insertion order.                                      *)
(***************************************************************************)
JNull == [t |-> "null"]
JBool(b) == [t |-> "bool", b |-> b]
JNum(isint, neg, num, k) ==
    [t |-> "num", int |-> isint, neg |-> neg, num |-> num, k |-> k]
JStr(s) == [t |-> "str", s |-> s]
JList(v) == [t |-> "list", v |-> v]
JDict(ks, vs) == [t |-> "dict", ks |-> ks, vs |-> vs]

IsDict(v) == v.t = "dict"

\* key in d
HasKey(d, key) == \E i \in 1..Len(d.ks) : d.ks[i] = key

KeyIndex(d, key) == CHOOSE i \in 1..Len(d.ks) : d.ks[i] = key

\* d[key]
Get(d, key) == d.vs[KeyIndex(d, key)]

\* d[key] = val: an existing key keeps its place, a new one goes last.
DictSet(d, key, val) ==
    IF HasKey(d, key)
    THEN JDict(d.ks, [d.vs EXCEPT ![KeyIndex(d, key)] = val])
    ELSE JDict(Append(d.ks, key), Append(d.vs, val))

(***************************************************************************)
(* json.loads, by recursive descent over the text as the decoder scans it. *)
(* The fragment: objects, arrays, strings without escapes, null, true,     *)
(* false, and numbers (sign, digits without a leading zero, an optional    *)
(* point and digits) without an exponent.                                  *)
(* A parse answers [ok, val, pos], pos the index after the value.          *)
(***************************************************************************)
Digits == <<"0", "1", "2", "3", "4", "5", "6", "7", "8", "9">>

IsDigit(c) == \E i \in 1..10 : Digits[i] = c

DigitVal(c) == (CHOOSE i \in 1..10 : Digits[i] = c) - 1

ParseFail == [ok |-> FALSE, val |-> JNull, pos |-> 0]

ParseOk(v, p) == [ok |-> TRUE, val |-> v, pos |-> p]

RECURSIVE SkipWs(_, _)
SkipWs(s, i) == IF At(s, i) \in {" ", "\n"} THEN SkipWs(s, i + 1) ELSE i

\* The index of the quote closing the string whose body starts at j, 0 when a
\* line break or the end of the text comes first.
RECURSIVE ScanString(_, _)
ScanString(s, j) ==
    IF j > Len(s) \/ s[j] = "\n" THEN 0
    ELSE IF s[j] = "\"" THEN j
    ELSE ScanString(s, j + 1)

\* The string that opens at i and closes at j.
ParseStringTo(s, i, j) ==
    IF j = 0 THEN ParseFail ELSE ParseOk(JStr(SubSeq(s, i + 1, j - 1)), j + 1)

ParseString(s, i) == ParseStringTo(s, i, ScanString(s, i + 1))

\* The index after the run of digits starting at i.
RECURSIVE DigitsEnd(_, _)
DigitsEnd(s, i) == IF IsDigit(At(s, i)) THEN DigitsEnd(s, i + 1) ELSE i

RECURSIVE DigitsValue(_, _, _, _)
DigitsValue(s, i, j, acc) ==
    IF i >= j THEN acc ELSE DigitsValue(s, i + 1, j, acc * 10 + DigitVal(s[i]))

\* A number whose digits start at i0 and whose whole part ends before i1; f1 is
\* the index after the fraction's digits, were there a point at i1.
ParseFraction(s, neg, i0, i1, f1) ==
    IF i1 = i0 THEN ParseFail
    ELSE IF At(s, i1) = "." /\ f1 > i1 + 1
    THEN ParseOk(JNum(FALSE, neg, DigitsValue(s, i1 + 1, f1, DigitsValue(s, i0, i1, 0)),
                      f1 - i1 - 1), f1)
    ELSE ParseOk(JNum(TRUE, neg, DigitsValue(s, i0, i1, 0), 0), i1)

ParseWhole(s, neg, i0, i1) == ParseFraction(s, neg, i0, i1, DigitsEnd(s, i1 + 1))

ParseUnsigned(s, neg, i0) ==
    ParseWhole(s, neg, i0, IF At(s, i0) = "0" THEN i0 + 1 ELSE DigitsEnd(s, i0))

ParseNumber(s, i) == ParseUnsigned(s, At(s, i) = "-", IF At(s, i) = "-" THEN i + 1 ELSE i)

ParseLiteral(s, i, word, v) ==
    IF i + Len(word) - 1 <= Len(s) /\ SubSeq(s, i, i + Len(word) - 1) = word
    THEN ParseOk(v, i + Len(word))
    ELSE ParseFail

RECURSIVE ParseValue(_, _)
RECURSIVE ParseElems(_, _, _)
RECURSIVE ParseMembers(_, _, _)

\* After an element: "," and more elements, or "]".
ParseElemsSep(s, acc, j) ==
    IF At(s, j) = "," THEN ParseElems(s, SkipWs(s, j + 1), acc)
    ELSE IF At(s, j) = "]" THEN ParseOk(JList(acc), j + 1)
    ELSE ParseFail

ParseElemsNext(s, acc, v) ==
    IF ~v.ok THEN ParseFail ELSE ParseElemsSep(s, Append(acc, v.val), SkipWs(s, v.pos))

\* After "[" or ",": a value, then the rest.
ParseElems(s, i, acc) == ParseElemsNext(s, acc, ParseValue(s, i))

\* After a member: "," and more members, or "}".
ParseMembersSep(s, d, j) ==
    IF At(s, j) = "," THEN ParseMembers(s, SkipWs(s, j + 1), d)
    ELSE IF At(s, j) = "}" THEN ParseOk(d, j + 1)
    ELSE ParseFail

ParseMemberValue(s, acc, key, v) ==
    IF ~v.ok THEN ParseFail
    ELSE ParseMembersSep(s, DictSet(acc, key, v.val), SkipWs(s, v.pos))

ParseMemberColon(s, acc, key, c) ==
    IF At(s, c) # ":" THEN ParseFail
    ELSE ParseMemberValue(s, acc, key, ParseValue(s, SkipWs(s, c + 1)))

ParseMemberKey(s, acc, key) ==
    IF ~key.ok THEN ParseFail
    ELSE ParseMemberColon(s, acc, key.val.s, SkipWs(s, key.pos))

\* After "{" or ",": "key" : value, then the rest.
ParseMembers(s, i, acc) ==
    IF At(s, i) # "\"" THEN ParseFail ELSE ParseMemberKey(s, acc, ParseString(s, i))

\* After "{" (close is "}") or "[" (close is "]"), at the first token j.
ParseContainer(s, c, j) ==
    IF c = "{"
    THEN IF At(s, j) = "}" THEN ParseOk(JDict(<<>>, <<>>), j + 1)
         ELSE ParseMembers(s, j, JDict(<<>>, <<>>))
    ELSE IF At(s, j) = "]" THEN ParseOk(JList(<<>>), j + 1)
         ELSE ParseElems(s, j, <<>>)

\* The value whose first character c stands at i.
ParseAt(s, i, c) ==
    IF c = "\"" THEN ParseString(s, i)
    ELSE IF c = "{" \/ c = "[" THEN ParseContainer(s, c, SkipWs(s, i + 1))
    ELSE IF c = "n" THEN ParseLiteral(s, i, <<"n", "u", "l", "l">>, JNull)
    ELSE IF c = "t" THEN ParseLiteral(s, i, <<"t", "r", "u", "e">>, JBool(TRUE))
    ELSE IF c = "f" THEN ParseLiteral(s, i, <<"f", "a", "l", "s", "e">>, JBool(FALSE))
    ELSE IF c = "-" \/ IsDigit(c) THEN ParseNumber(s, i)
    ELSE ParseFail

ParseValue(s, i) == ParseAt(s, i, At(s, i))

\* The document is the value and white space to the end of the text.
LoadsEnd(s, v) ==
    IF v.ok /\ SkipWs(s, v.pos) = Len(s) + 1
    THEN [ok |-> TRUE, val |-> v.val]
    ELSE [ok |-> FALSE, val |-> JNull]

\* json.loads(s): [ok, val]; ok is FALSE where it raises JSONDecodeError.
Loads(s) == LoadsEnd(s, ParseValue(s, SkipWs(s, 1)))

(***************************************************************************)
(* The keys the handler reads and writes.                                  *)
(***************************************************************************)
Itens == <<"i", "t", "e", "n", "s">>
ValorTotal == <<"v", "a", "l", "o", "r", "_", "t", "o", "t", "a", "l">>
PrecoTotal == <<"p", "r", "e", "c", "o", "_", "t", "o", "t", "a", "l">>
AvisoSoma == <<"a", "v", "i", "s", "o", "_", "s", "o", "m", "a">>
RawResponse == <<"r", "a", "w", "_", "r", "e", "s", "p", "o", "n", "s", "e">>
Error == <<"e", "r", "r", "o", "r">>
Cnpj == <<"c", "n", "p", "j">>

(***************************************************************************)
(* The model's reply (response['message']['content']) is text the model    *)
(* service writes.  The replies of this model are JSON documents written   *)
(* out by Dumps, damaged or not, fenced or not.                            *)
(***************************************************************************)
RECURSIVE Pow10(_)
Pow10(k) == IF k = 0 THEN 1 ELSE 10 * Pow10(k - 1)

RECURSIVE IntText(_)
IntText(n) ==
    IF n < 10 THEN <<Digits[n + 1]>> ELSE Append(IntText(n \div 10), Digits[(n % 10) + 1])

\* The k digits of n, zero-padded on the left.
RECURSIVE FracText(_, _)
FracText(n, k) ==
    IF k = 0 THEN <<>> ELSE Append(FracText(n \div 10, k - 1), Digits[(n % 10) + 1])

NumText(v) ==
    (IF v.neg THEN <<"-">> ELSE <<>>)
    \o IntText(v.num \div Pow10(v.k))
    \o (IF v.int THEN <<>> ELSE <<".">> \o FracText(v.num % Pow10(v.k), v.k))

RECURSIVE Dumps(_)
RECURSIVE DumpsElems(_, _)
RECURSIVE DumpsMembers(_, _)

DumpsElems(v, i) ==
    IF i > Len(v) THEN <<>>
    ELSE (IF i > 1 THEN <<",", " ">> ELSE <<>>) \o Dumps(v[i]) \o DumpsElems(v, i + 1)

DumpsMembers(d, i) ==
    IF i > Len(d.ks) THEN <<>>
    ELSE (IF i > 1 THEN <<",", " ">> ELSE <<>>)
         \o <<"\"">> \o d.ks[i] \o <<"\"", ":", " ">> \o Dumps(d.vs[i])
         \o DumpsMembers(d, i + 1)

Dumps(v) ==
    CASE v.t = "null" -> <<"n", "u", "l", "l">>
      [] v.t = "bool" -> IF v.b THEN <<"t", "r", "u", "e">> ELSE <<"f", "a", "l", "s", "e">>
      [] v.t = "num" -> NumText(v)
      [] v.t = "str" -> <<"\"">> \o v.s \o <<"\"">>
      [] v.t = "list" -> <<"[">> \o DumpsElems(v.v, 1) \o <<"]">>
      [] v.t = "dict" -> <<"{">> \o DumpsMembers(v, 1) \o <<"}">>

(***************************************************************************)
(* Python floats.  A float is [neg, m]: sign and magnitude, the magnitude  *)
(* an exact multiple of 2^-60 written as five limbs in base 2^15, least    *)
(* significant first.  Every double d with d = 0 or 2^-7 <= |d| < 2^8 is   *)
(* such a multiple, and so are their sums and differences; all amounts of  *)
(* this model lie there.  Rounding is to 53 significant bits, ties to      *)
(* even, as the hardware does it.                                          *)
(***************************************************************************)
\* A limb holds 15 bits; a magnitude is five of them, least significant first.
Limb == 2^15

MagZero == <<0, 0, 0, 0, 0>>

NLimbs == Len(MagZero)

\* The significant bits of a Python float.
Mantissa == 53

RECURSIVE MagAddFrom(_, _, _, _)
MagAddFrom(a, b, i, carry) ==
    IF i > NLimbs THEN <<>>
    ELSE LET t == a[i] + b[i] + carry
         IN  <<t % Limb>> \o MagAddFrom(a, b, i + 1, t \div Limb)

MagAdd(a, b) == MagAddFrom(a, b, 1, 0)

\* a - b for a >= b
RECURSIVE MagSubFrom(_, _, _, _)
MagSubFrom(a, b, i, borrow) ==
    IF i > NLimbs THEN <<>>
    ELSE LET t == a[i] - b[i] - borrow
         IN  <<t % Limb>> \o MagSubFrom(a, b, i + 1, IF t < 0 THEN 1 ELSE 0)

MagSub(a, b) == MagSubFrom(a, b, 1, 0)

\* a < b, comparing from the most significant limb down.
RECURSIVE MagLessFrom(_, _, _)
MagLessFrom(a, b, i) ==
    IF i = 0 THEN FALSE
    ELSE IF a[i] # b[i] THEN a[i] < b[i]
    ELSE MagLessFrom(a, b, i - 1)

MagLess(a, b) == MagLessFrom(a, b, NLimbs)

RECURSIVE Pow2(_)
Pow2(k) == IF k = 0 THEN 1 ELSE 2 * Pow2(k - 1)

RECURSIVE BitLenInt(_)
BitLenInt(n) == IF n = 0 THEN 0 ELSE 1 + BitLenInt(n \div 2)

RECURSIVE TopLimb(_, _)
TopLimb(m, i) == IF i = 0 \/ m[i] # 0 THEN i ELSE TopLimb(m, i - 1)

\* The number of significant bits of m, whose top limb is limb t.
BitLenTo(m, t) == IF t = 0 THEN 0 ELSE 15 * (t - 1) + BitLenInt(m[t])

BitLen(m) == BitLenTo(m, TopLimb(m, NLimbs))

\* Bit p (from 0) of m.
Bit(m, p) == (m[(p \div 15) + 1] \div Pow2(p % 15)) % 2

\* m with its low p bits r dropped, rounded up by unit = 2^p or not: ties to even.
RoundBits(m, sticky, p, r, unit) ==
    IF r > unit \div 2 \/ (r = unit \div 2 /\ (sticky \/ Bit(m, p) = 1))
    THEN MagAdd([m EXCEPT ![1] = m[1] - r], <<unit % Limb, unit \div Limb, 0, 0, 0>>)
    ELSE [m EXCEPT ![1] = m[1] - r]

RoundAt(m, sticky, p, unit) ==
    IF p <= 0 THEN m ELSE RoundBits(m, sticky, p, m[1] % unit, unit)

RoundDrop(m, sticky, p) == RoundAt(m, sticky, p, IF p <= 0 THEN 1 ELSE Pow2(p))

\* m, or m plus a nonzero part below its unit when sticky, rounded to Mantissa
\* significant bits, ties to even.  At most 15 bits are dropped.
RoundMag(m, sticky) == RoundDrop(m, sticky, BitLen(m) - Mantissa)

\* floor(m / den) and whether a remainder is left, by long division.
RECURSIVE MagDivFrom(_, _, _, _)
MagDivFrom(m, den, i, rem) ==
    IF i = 0 THEN [q |-> <<>>, sticky |-> rem # 0]
    ELSE [q |-> Append(MagDivFrom(m, den, i - 1, (rem * Limb + m[i]) % den).q,
                       (rem * Limb + m[i]) \div den),
          sticky |-> MagDivFrom(m, den, i - 1, (rem * Limb + m[i]) % den).sticky]

FloatOfQuotient(neg, d) == [neg |-> neg, m |-> RoundMag(d.q, d.sticky)]

\* The double nearest to num / 10^k: float() of a decimal literal, and of an int.
FloatOfDecimal(neg, num, k) ==
    FloatOfQuotient(neg, MagDivFrom(<<0, 0, 0, 0, num>>, Pow10(k), NLimbs, 0))

FZero == [neg |-> FALSE, m |-> MagZero]

\* The sign and the exact magnitude of a + b.
SumSign(a, b) ==
    IF a.neg = b.neg THEN a.neg
    ELSE IF MagLess(a.m, b.m) THEN b.neg
    ELSE IF a.m = b.m THEN FALSE
    ELSE a.neg

SumMag(a, b) ==
    IF a.neg = b.neg THEN MagAdd(a.m, b.m)
    ELSE IF MagLess(a.m, b.m) THEN MagSub(b.m, a.m)
    ELSE MagSub(a.m, b.m)

\* a + b
FAdd(a, b) == [neg |-> SumSign(a, b), m |-> RoundMag(SumMag(a, b), FALSE)]

\* a - b
FSub(a, b) == FAdd(a, [neg |-> ~b.neg, m |-> b.m])

\* abs(a) > b, for b >= 0
FAbsGreater(a, b) == MagLess(b.m, a.m)

\* 100 * m, six limbs.
RECURSIVE MagTimes100From(_, _, _)
MagTimes100From(m, i, carry) ==
    IF i > NLimbs THEN <<carry>>
    ELSE LET t == 100 * m[i] + carry
         IN  <<t % Limb>> \o MagTimes100From(m, i + 1, t \div Limb)

\* whole hundredths and a rest low / 2^60 of one: the rest rounded, ties to even.
RoundCents(whole, low) ==
    IF MagLess(<<0, 0, 0, Limb \div 2, 0>>, low)
       \/ (low = <<0, 0, 0, Limb \div 2, 0>> /\ whole % 2 = 1)
    THEN whole + 1
    ELSE whole

CentsText(neg, cents) ==
    (IF neg THEN <<"-">> ELSE <<>>)
    \o IntText(cents \div 100) \o <<".">> \o FracText(cents % 100, 2)

FormatTimes100(neg, h) ==
    CentsText(neg, RoundCents(h[5] + Limb * h[6], <<h[1], h[2], h[3], h[4], 0>>))

\* f"{a:.2f}": the nearest hundredth, ties to even, as sign, units and two digits.
Format2(a) == FormatTimes100(a.neg, MagTimes100From(a.m, 1, 0))

(***************************************************************************)
(* The cross-check of lines 102-113.  A step that can raise answers        *)
(* [exc, ...]: exc is "none" or the name of the exception raised.          *)
(***************************************************************************)
\* The number p read off the whole of text t, or ValueError.
FloatOfParse(t, p) ==
    IF p.ok /\ p.pos = Len(t) + 1
    THEN [exc |-> "none", f |-> FloatOfDecimal(p.val.neg, p.val.num, p.val.k)]
    ELSE [exc |-> "ValueError", f |-> FZero]

FloatOfStripped(t) == FloatOfParse(t, ParseNumber(t, 1))

\* float(str): the text, stripped, read as a number of the decoder's fragment.
FloatOfStr(s) == FloatOfStripped(Strip(s))

\* float(v)
Coerce(v) ==
    CASE v.t = "num" -> [exc |-> "none", f |-> FloatOfDecimal(v.neg, v.num, v.k)]
      [] v.t = "bool" -> [exc |-> "none", f |-> FloatOfDecimal(FALSE, IF v.b THEN 1 ELSE 0, 0)]
      [] v.t = "str" -> FloatOfStr(v.s)
      [] OTHER -> [exc |-> "TypeError", f |-> FZero]

\* iter(v): a list gives its elements, a dict its keys, a str its characters.
Iterate(v) ==
    CASE v.t = "list" -> [exc |-> "none", items |-> v.v]
      [] v.t = "dict" -> [exc |-> "none", items |-> [i \in 1..Len(v.ks) |-> JStr(v.ks[i])]]
      [] v.t = "str" -> [exc |-> "none", items |-> [i \in 1..Len(v.s) |-> JStr(<<v.s[i]>>)]]
      [] OTHER -> [exc |-> "TypeError", items |-> <<>>]

\* item.get("preco_total", 0) of a dict
GetPrice(item) ==
    IF HasKey(item, PrecoTotal) THEN Get(item, PrecoTotal) ELSE JNum(TRUE, FALSE, 0, 0)

\* float(item.get("preco_total", 0)): only a dict has get.
ItemPrice(item) ==
    IF ~IsDict(item) THEN [exc |-> "AttributeError", f |-> FZero]
    ELSE Coerce(GetPrice(item))

\* sum(...) of line 104 from item i on, acc the sum so far: the generator stops at
\* the first exception.  The floats are added left to right, each sum rounded
\* (an interpreter that adds with compensation agrees on up to two items).
RECURSIVE SumFrom(_, _, _)

SumStep(items, i, acc, p) ==
    IF p.exc # "none" THEN p ELSE SumFrom(items, i + 1, FAdd(acc, p.f))

SumFrom(items, i, acc) ==
    IF i > Len(items) THEN [exc |-> "none", f |-> acc]
    ELSE SumStep(items, i, acc, ItemPrice(items[i]))

SumOver(it) ==
    IF it.exc # "none" THEN [exc |-> it.exc, f |-> FZero] ELSE SumFrom(it.items, 1, FZero)

\* Line 104.
SomaCalculada(res) == SumOver(Iterate(Get(res, Itens)))

\* Line 106: the literal 0.01.
Tolerance == FloatOfDecimal(FALSE, 1, 2)

\* The messages of lines 98, 107-111 and 113, their accented letters written plain.
MsgInvalid == JStr(<<"Nao foi possivel validar a soma dos itens (valores invalidos).">>)

\* Lines 107-111: the message around the two amounts as they are written.
MismatchText(soma, total) ==
    <<"Soma calculada dos itens (">> \o soma
    \o <<") difere do total declarado (">> \o total
    \o <<"). ", "Possivel erro no modelo - verifique os valores.">>

MsgMismatch(soma, total) == JStr(MismatchText(Format2(soma), Format2(total)))

MsgParse == JStr(<<"O modelo nao retornou JSON valido. Veja raw_response acima.">>)

\* Lines 96-99, cut to a preview of the reply.
ParseFailureRecordPreview(c) ==
    JDict(<<RawResponse, Error>>, <<JStr(SubSeq(c, 1, IF Len(c) < 8 THEN Len(c) ELSE 8)), MsgParse>>)

\* Lines 96-99.
ParseFailureRecord(c) == JDict(<<RawResponse, Error>>, <<JStr(c), MsgParse>>)

\* Line 102.
Checked(res) == IsDict(res) /\ HasKey(res, Itens) /\ HasKey(res, ValorTotal)

\* Lines 106-113, soma and total being what lines 104 and 105 gave or raised:
\* [exc, kind, res]; res is resultado afterwards, kind the annotation attached.
AnnotateWith(res, soma, total, exc) ==
    IF exc \in {"TypeError", "ValueError"}
    THEN [exc |-> "none", kind |-> "invalid", res |-> DictSet(res, AvisoSoma, MsgInvalid)]
    ELSE IF exc # "none" THEN [exc |-> exc, kind |-> "none", res |-> res]
    ELSE IF FAbsGreater(FSub(soma.f, total.f), Tolerance)
    THEN [exc |-> "none", kind |-> "mismatch",
          res |-> DictSet(res, AvisoSoma, MsgMismatch(soma.f, total.f))]
    ELSE [exc |-> "none", kind |-> "none", res |-> res]

\* Line 105 runs when line 104 has not raised.
AnnotateOf(res, soma, total) ==
    AnnotateWith(res, soma, total, IF soma.exc # "none" THEN soma.exc ELSE total.exc)

\* Lines 103-113 on a record line 102 lets through.
Annotate(res) == AnnotateOf(res, SomaCalculada(res), Coerce(Get(res, ValorTotal)))

\* Lines 102-113 with a mapping checked whenever it has either key, a missing
\* one counting as invalid.
CrossCheckEitherKey(res) ==
    IF Checked(res) THEN Annotate(res)
    ELSE IF IsDict(res) /\ (HasKey(res, Itens) \/ HasKey(res, ValorTotal))
    THEN [exc |-> "none", kind |-> "invalid", res |-> DictSet(res, AvisoSoma, MsgInvalid)]
    ELSE [exc |-> "none", kind |-> "skipped", res |-> res]

\* Lines 102-113.
CrossCheck(res) ==
    IF Checked(res) THEN Annotate(res)
    ELSE [exc |-> "none", kind |-> "skipped", res |-> res]

\* Lines 92-99: resultado after the decoding of c.
Decoded(c, d) == IF d.ok THEN d.val ELSE ParseFailureRecord(c)

\* Lines 115 and 117-119: the response after the cross-check answered v.
ResponseOf(v) ==
    IF v.exc # "none" THEN [status |-> 500, body |-> JNull]
    ELSE [status |-> 200, body |-> v.res]

SanitizeStripped(c) == ResponseOf(CrossCheck(Decoded(c, Loads(c))))

\* Lines 82-115 on a reply, start to end: the response it ends in.
Sanitize(raw) == SanitizeStripped(StripFence(Strip(raw)))

(***************************************************************************)
(* The replies the model service gives in this model.  A reply is built    *)
(* from an interior text t, wrapped (w) in a closed or unclosed fence or   *)
(* left bare, and padded (pad) with white space or not.                    *)
(***************************************************************************)
Price(c) == JNum(FALSE, FALSE, c, 2)

ItemOf(v) == JDict(<<PrecoTotal>>, <<v>>)

Receipt(itens, total) == JDict(<<Itens, ValorTotal>>, <<itens, total>>)

Abc == JStr(<<"a", "b", "c">>)

\* An item priced 0.00 .. 0.0MaxCents, or an item without preco_total.
ItemChoices == {ItemOf(Price(c)) : c \in 0..MaxCents} \cup {JDict(<<>>, <<>>)}

ItemLists == UNION {[1..n -> ItemChoices] : n \in 0..MaxItems}

\* Receipts whose values are all amounts in whole cents.
NumericReceipts == {Receipt(JList(l), Price(t)) : l \in ItemLists, t \in 0..MaxCents}

\* The receipts of the documented examples.
ExampleReceipts ==
    { Receipt(JList(<<ItemOf(Price(1000)), ItemOf(Price(500))>>), Price(1500)),
      Receipt(JList(<<ItemOf(Price(1000))>>), Price(1500)),
      Receipt(JList(<<>>), JNum(TRUE, FALSE, 0, 0)),
      Receipt(JList(<<ItemOf(Abc)>>), Price(1)),
      JDict(<<Itens>>, <<JList(<<ItemOf(Price(1000))>>)>>) }

\* Values that are no mapping, or lack a key of the cross-check.
UncheckedValues ==
    { JList(<<ItemOf(Price(1))>>), JNum(TRUE, FALSE, 5, 0), Abc, JNull,
      JDict(<<>>, <<>>), JDict(<<Cnpj>>, <<Abc>>),
      JDict(<<ValorTotal>>, <<Price(1)>>),
      JDict(<<Cnpj, Itens>>, <<Abc, JList(<<ItemOf(Price(1))>>)>>),
      JDict(<<Itens, AvisoSoma>>, <<JList(<<>>), Abc>>) }

\* What is no number, and what float() reads as one though it is none.
NonNumbers == {Abc, JNull, JList(<<Price(1)>>), JDict(<<>>, <<>>)}

Coercible == {JBool(TRUE), JStr(<<"0", ".", "0", "3">>), JStr(<<" ", "3", " ">>)}

\* Receipts with a value that is no number in an item or as the total.
MalformedReceipts ==
    {Receipt(JList(<<ItemOf(v)>>), Price(1)) : v \in NonNumbers \cup Coercible}
    \cup {Receipt(JList(<<ItemOf(Price(1))>>), v) : v \in NonNumbers \cup Coercible}
    \cup {Receipt(JList(<<ItemOf(Price(1)), ItemOf(v)>>), Price(4)) : v \in NonNumbers}
    \cup {Receipt(JList(<<ItemOf(v), ItemOf(Price(1))>>), Price(4)) : v \in NonNumbers}

\* Receipts whose itens is no list of mappings.
MisshapenReceipts ==
    {Receipt(v, Price(1)) : v \in {JNum(TRUE, FALSE, 5, 0), JNull, Abc, JStr(<<>>),
                                   JDict(<<>>, <<>>), JDict(<<Cnpj>>, <<Abc>>)}}
    \cup {Receipt(JList(<<v>>), Price(1)) :
            v \in {JNum(TRUE, FALSE, 1, 0), JNull, Abc, JList(<<>>)}}
    \cup { Receipt(JList(<<JNum(TRUE, FALSE, 1, 0), ItemOf(Abc)>>), Price(1)),
           Receipt(JList(<<ItemOf(Abc), JNum(TRUE, FALSE, 1, 0)>>), Price(1)),
           Receipt(JList(<<JNum(TRUE, FALSE, 1, 0)>>), Abc) }

\* Receipts that carry the keys the handler itself writes.
ReservedKeyReceipts ==
    { JDict(<<RawResponse, Error, Itens, ValorTotal>>, <<Abc, Abc, JList(<<>>), Price(4)>>),
      JDict(<<RawResponse, Error>>, <<Abc, Abc>>),
      JDict(<<AvisoSoma, Itens, ValorTotal>>, <<Abc, JList(<<>>), Price(0)>>),
      JDict(<<AvisoSoma, Itens, ValorTotal, Cnpj>>, <<Abc, JList(<<>>), Price(4), Abc>>) }

SpecialValues ==
    ExampleReceipts \cup UncheckedValues \cup MalformedReceipts
    \cup MisshapenReceipts \cup ReservedKeyReceipts

\* Text that is no JSON: prose, nothing, and documents cut short or continued.
Prose == <<"n", "a", "o", " ", "s", "e", "i">>

Damaged(t) ==
    {SubSeq(t, 1, Len(t) - 1), t \o <<" ", "o", "k">>, <<"a", ":", " ">> \o t}

Garbage ==
    {Prose, <<>>, <<"{">>, <<"[", "1", ",", "]">>, <<"0", "1">>}
    \cup UNION {Damaged(Dumps(v)) : v \in ExampleReceipts}

FenceInteriors == {Dumps(v) : v \in SpecialValues} \cup Garbage

AllInteriors == FenceInteriors \cup {Dumps(v) : v \in NumericReceipts}

Wrappers == {"json", "plain", "json_open", "plain_open"}

AllShapes ==
    [w : {"bare"}, pad : {FALSE}, t : AllInteriors]
    \cup [w : {"bare"}, pad : {TRUE}, t : FenceInteriors]
    \cup [w : Wrappers, pad : BOOLEAN, t : FenceInteriors]

\* The replies of a run of overlapping requests: what is replied plays no part there.
ConcShapes ==
    [w : {"bare"}, pad : {FALSE},
     t : {Dumps(Receipt(JList(<<ItemOf(Price(1))>>), Price(4)))}]

NoShape == [w |-> "none", pad |-> FALSE, t |-> <<>>]

\* response['message']['content'] for a reply of shape sh.
ReplyText(sh) ==
    LET nl == <<"\n">>
        inner == CASE sh.w = "json" -> FenceJson \o nl \o sh.t \o nl \o Fence
                   [] sh.w = "plain" -> Fence \o nl \o sh.t \o nl \o Fence
                   [] sh.w = "json_open" -> FenceJson \o nl \o sh.t
                   [] sh.w = "plain_open" -> Fence \o nl \o sh.t
                   [] OTHER -> sh.t
    IN  IF sh.pad THEN nl \o inner \o <<" ", "\n">> ELSE inner

ReplyShapes == IF Cardinality(reqs) = 1 THEN AllShapes ELSE ConcShapes

(***************************************************************************)
(* The handler.  processar_cupom is a coroutine on one event loop: it runs *)
(* alone from one await to the next, and its only await is file.read() of  *)
(* line 68, reached with the temp file already opened and truncated.       *)
(* running is the coroutine that holds the loop.                           *)
(***************************************************************************)
\* The bytes request r may upload: 1 .. MaxUpload bytes, each marked r.
Uploads(r) == {[i \in 1..n |-> r] : n \in 1..MaxUpload}

Unread == [got |-> FALSE, bytes |-> <<>>]

InitOf(R) ==
    /\ reqs = R
    /\ pc = [r \in R |-> "start"]
    /\ running = 0
    /\ path = 0
    /\ inode = [i \in R |-> <<>>]
    /\ fd = [r \in R |-> 0]
    /\ ctype = [r \in R |-> TRUE]
    /\ upload = [r \in R |-> <<>>]
    /\ seen = [r \in R |-> Unread]
    /\ shape = [r \in R |-> NoShape]
    /\ conteudo = [r \in R |-> <<>>]
    /\ decoded = [r \in R |-> [ok |-> FALSE, val |-> JNull]]
    /\ resultado = [r \in R |-> JNull]
    /\ aviso = [r \in R |-> "unset"]
    /\ status = [r \in R |-> 0]
    /\ body = [r \in R |-> JNull]
    /\ cause = [r \in R |-> "none"]
    /\ unlinked = [r \in R |-> "unset"]

Init == InitOf({1})

InitConc == InitOf(1..NumRequests)

\* What no step of the sanitizer has touched.
SanitizerVars == <<shape, conteudo, decoded, resultado, aviso>>

FileVars == <<path, inode, fd>>

\* A step of r that raises: control goes to the except clause of line 117.
Raise(r, what) ==
    /\ pc' = [pc EXCEPT ![r] = "except"]
    /\ cause' = [cause EXCEPT ![r] = what]

\* Lines 62-63: the loop starts the coroutine; a content type that is no image
\* is answered 400 before the try.
Receive(r) ==
    /\ pc[r] = "start" /\ running = 0
    /\ \E image \in BOOLEAN :
        /\ ctype' = [ctype EXCEPT ![r] = image]
        /\ IF image
           THEN /\ pc' = [pc EXCEPT ![r] = "open"]
                /\ running' = r
                /\ status' = status
           ELSE /\ pc' = [pc EXCEPT ![r] = "done"]
                /\ running' = 0
                /\ status' = [status EXCEPT ![r] = 400]
    /\ UNCHANGED <<reqs, FileVars, upload, seen, SanitizerVars, body, cause,
                   unlinked>>

\* Lines 67-68: open(TEMP_IMAGE_PATH, "wb") creates the file or truncates the
\* one the path names, or raises; then the coroutine suspends at the await.
OpenTemp(r) ==
    /\ pc[r] = "open" /\ running = r
    /\ \/ /\ Raise(r, "open")
          /\ UNCHANGED <<running, FileVars>>
       \/ /\ path' = (IF path = 0 THEN r ELSE path)
          /\ inode' = [inode EXCEPT ![path'] = <<>>]
          /\ fd' = [fd EXCEPT ![r] = path']
          /\ pc' = [pc EXCEPT ![r] = "await"]
          /\ running' = 0
          /\ cause' = cause
    /\ UNCHANGED <<reqs, ctype, upload, seen, SanitizerVars, status, body,
                   unlinked>>

\* Line 68: the loop resumes the coroutine with the upload's bytes, or with the
\* read's exception; the with statement then closes the buffer unwritten.
ReadUpload(r) ==
    /\ pc[r] = "await" /\ running = 0
    /\ running' = r
    /\ \/ /\ Raise(r, "read")
          /\ fd' = [fd EXCEPT ![r] = 0]
          /\ upload' = upload
       \/ /\ \E u \in Uploads(r) : upload' = [upload EXCEPT ![r] = u]
          /\ pc' = [pc EXCEPT ![r] = "write"]
          /\ UNCHANGED <<fd, cause>>
    /\ UNCHANGED <<reqs, path, inode, ctype, seen, SanitizerVars, status, body, unlinked>>

\* Lines 67-68: buffer.write and the close of the with statement put the first n
\* bytes at the start of the file the buffer is open on; n short of all raises.
WriteTemp(r) ==
    /\ pc[r] = "write" /\ running = r
    /\ \E n \in 0..Len(upload[r]) :
        /\ inode' = [inode EXCEPT ![fd[r]] =
                        SubSeq(upload[r], 1, n) \o SubSeq(@, n + 1, Len(@))]
        /\ IF n < Len(upload[r])
           THEN Raise(r, "write")
           ELSE pc' = [pc EXCEPT ![r] = "stat"] /\ cause' = cause
    /\ fd' = [fd EXCEPT ![r] = 0]
    /\ UNCHANGED <<reqs, running, path, ctype, upload, seen, SanitizerVars, status,
                   body, unlinked>>

\* Line 70: TEMP_IMAGE_PATH.stat() raises when the path names no file.
StatTemp(r) ==
    /\ pc[r] = "stat" /\ running = r
    /\ IF path = 0 THEN Raise(r, "stat")
       ELSE pc' = [pc EXCEPT ![r] = "chat"] /\ cause' = cause
    /\ UNCHANGED <<reqs, running, FileVars, ctype, upload, seen, SanitizerVars,
                   status, body, unlinked>>

\* Lines 73-82: ollama.chat reads the file the path names and answers with a
\* reply, or raises; the reply is stripped.
Chat(r) ==
    /\ pc[r] = "chat" /\ running = r
    /\ \/ /\ Raise(r, "chat")
          /\ UNCHANGED <<seen, shape, conteudo>>
       \/ /\ path # 0
          /\ seen' = [seen EXCEPT ![r] = [got |-> TRUE, bytes |-> inode[path]]]
          /\ \E sh \in ReplyShapes :
                /\ shape' = [shape EXCEPT ![r] = sh]
                /\ conteudo' = [conteudo EXCEPT ![r] = Strip(ReplyText(sh))]
          /\ pc' = [pc EXCEPT ![r] = "fence"]
          /\ cause' = cause
    /\ UNCHANGED <<reqs, running, FileVars, ctype, upload, decoded, resultado, aviso,
                   status, body, unlinked>>

\* Lines 86-89.
Unfence(r) ==
    /\ pc[r] = "fence" /\ running = r
    /\ conteudo' = [conteudo EXCEPT ![r] = StripFence(@)]
    /\ pc' = [pc EXCEPT ![r] = "loads"]
    /\ UNCHANGED <<reqs, running, FileVars, ctype, upload, seen, shape, decoded,
                   resultado, aviso, status, body, cause, unlinked>>

DecodeTo(r, d) ==
    /\ decoded' = [decoded EXCEPT ![r] = d]
    /\ resultado' = [resultado EXCEPT ![r] = Decoded(conteudo[r], d)]

\* Lines 92-99.
Decode(r) ==
    /\ pc[r] = "loads" /\ running = r
    /\ DecodeTo(r, Loads(conteudo[r]))
    /\ pc' = [pc EXCEPT ![r] = "check"]
    /\ UNCHANGED <<reqs, running, FileVars, ctype, upload, seen, shape, conteudo,
                   aviso, status, body, cause, unlinked>>

ValidateTo(r, v) ==
    IF v.exc # "none"
    THEN /\ Raise(r, "sanitize")
         /\ UNCHANGED <<resultado, aviso>>
    ELSE /\ resultado' = [resultado EXCEPT ![r] = v.res]
         /\ aviso' = [aviso EXCEPT ![r] = v.kind]
         /\ pc' = [pc EXCEPT ![r] = "return"]
         /\ cause' = cause

\* Lines 102-113: an exception the inner except does not name leaves the try.
Validate(r) ==
    /\ pc[r] = "check" /\ running = r
    /\ ValidateTo(r, CrossCheck(resultado[r]))
    /\ UNCHANGED <<reqs, running, FileVars, ctype, upload, seen, shape, conteudo,
                   decoded, status, body, unlinked>>

\* Line 115.
Respond(r) ==
    /\ pc[r] = "return" /\ running = r
    /\ status' = [status EXCEPT ![r] = 200]
    /\ body' = [body EXCEPT ![r] = resultado[r]]
    /\ pc' = [pc EXCEPT ![r] = "finally"]
    /\ UNCHANGED <<reqs, running, FileVars, ctype, upload, seen, SanitizerVars, cause,
                   unlinked>>

\* Lines 117-119.
Except(r) ==
    /\ pc[r] = "except" /\ running = r
    /\ status' = [status EXCEPT ![r] = 500]
    /\ pc' = [pc EXCEPT ![r] = "finally"]
    /\ UNCHANGED <<reqs, running, FileVars, ctype, upload, seen, SanitizerVars, body,
                   cause, unlinked>>

\* Lines 121-128 as the last statements of the try block, not as its finally
\* clause: the cleanup runs only after line 115.
FinallyOnSuccess(r) ==
    /\ pc[r] = "finally" /\ running = r
    /\ IF path = 0 \/ status[r] # 200
       THEN path' = path /\ unlinked' = [unlinked EXCEPT ![r] = "absent"]
       ELSE \/ path' = 0 /\ unlinked' = [unlinked EXCEPT ![r] = "removed"]
            \/ path' = path /\ unlinked' = [unlinked EXCEPT ![r] = "failed"]
    /\ pc' = [pc EXCEPT ![r] = "done"]
    /\ running' = 0
    /\ UNCHANGED <<reqs, inode, fd, ctype, upload, seen, SanitizerVars, status, body,
                   cause>>

\* Lines 121-128: the path is unlinked when it exists; a failing unlink is
\* logged and the file stays.  The response is sent and the loop is free.
Finally(r) ==
    /\ pc[r] = "finally" /\ running = r
    /\ IF path = 0
       THEN path' = path /\ unlinked' = [unlinked EXCEPT ![r] = "absent"]
       ELSE \/ path' = 0 /\ unlinked' = [unlinked EXCEPT ![r] = "removed"]
            \/ path' = path /\ unlinked' = [unlinked EXCEPT ![r] = "failed"]
    /\ pc' = [pc EXCEPT ![r] = "done"]
    /\ running' = 0
    /\ UNCHANGED <<reqs, inode, fd, ctype, upload, seen, SanitizerVars, status, body,
                   cause>>

Next ==
    \/ \E r \in reqs : Receive(r)
    \/ \E r \in reqs : OpenTemp(r)
    \/ \E r \in reqs : ReadUpload(r)
    \/ \E r \in reqs : WriteTemp(r)
    \/ \E r \in reqs : StatTemp(r)
    \/ \E r \in reqs : Chat(r)
    \/ \E r \in reqs : Unfence(r)
    \/ \E r \in reqs : Decode(r)
    \/ \E r \in reqs : Validate(r)
    \/ \E r \in reqs : Respond(r)
    \/ \E r \in reqs : Except(r)
    \/ \E r \in reqs : Finally(r)

Spec == Init /\ [][Next]_vars

SpecConc == InitConc /\ [][Next]_vars

(***************************************************************************)
(* The claims.  Each is stated of a request that has finished ("done");    *)
(* Replied(r) says its model call returned a reply, so that the lines      *)
(* 82-115 ran on it.                                                       *)
(***************************************************************************)
Done(r) == pc[r] = "done"

Replied(r) == Done(r) /\ seen[r].got

\* The reply of r decoded as JSON.
DecodedOk(r) == Replied(r) /\ decoded[r].ok

\* What the handler answered r.
Outcome(r) == [status |-> status[r], body |-> body[r]]

\* C1: whatever the model replies, sanitization and validation end in a
\* normal response, never in HTTP 500, whatever JSON value stands under
\* itens, preco_total or valor_total; a reply that is no JSON yields the
\* parse-failure record.
C1_NeverServerError ==
    \A r \in reqs :
        Replied(r) =>
            /\ status[r] = 200
            /\ cause[r] = "none"
            /\ ~decoded[r].ok =>
                   /\ IsDict(body[r])
                   /\ HasKey(body[r], RawResponse) /\ HasKey(body[r], Error)

\* C2: a reply that wraps the interior t in a tagged or a plain fence is
\* answered as t itself is, also when the fence is opened and not closed, and
\* such a fence loses no character of the interior.
C2_FenceTransparent ==
    \A r \in reqs :
        Replied(r) /\ shape[r].w \in Wrappers =>
            /\ Outcome(r) = Sanitize(shape[r].t)
            /\ shape[r].w \in {"json_open", "plain_open"} =>
                   EndsWith(conteudo[r], Strip(shape[r].t))

\* C3: a reply that does not decode as JSON after the fence is stripped is
\* answered 200 with exactly {raw_response: the stripped text, error: the fixed
\* message}, the cross-check skipped; under a closed fence, or none, the
\* stripped text is the interior.
C3_ParseFailureRecord ==
    \A r \in reqs :
        Replied(r) /\ ~decoded[r].ok =>
            /\ status[r] = 200
            /\ body[r] = JDict(<<RawResponse, Error>>, <<JStr(conteudo[r]), MsgParse>>)
            /\ aviso[r] = "skipped"
            /\ conteudo[r] = StripFence(Strip(ReplyText(shape[r])))
            /\ shape[r].w \in {"bare", "json", "plain"} => conteudo[r] = Strip(shape[r].t)

\* C3 happens: a fenced reply longer than a preview that is no JSON was answered.
C3_Witness ==
    \E r \in reqs :
        /\ Replied(r) /\ ~decoded[r].ok /\ status[r] = 200
        /\ shape[r].w = "json" /\ Len(conteudo[r]) > 8
        /\ Get(body[r], RawResponse) = JStr(conteudo[r])

\* The cents of an item of a receipt in whole cents: none counts as zero.
CentsOfItem(item) == IF HasKey(item, PrecoTotal) THEN Get(item, PrecoTotal).num ELSE 0

\* The sum in cents of the first n items.
RECURSIVE CentsSum(_, _)
CentsSum(items, n) ==
    IF n = 0 THEN 0 ELSE CentsSum(items, n - 1) + CentsOfItem(items[n])

Distance(a, b) == IF a < b THEN b - a ELSE a - b

\* What C4 asks of a receipt in whole cents, soma and total being its amounts
\* in cents.
AnsweredByCents(r, soma, total) ==
    /\ status[r] = 200
    /\ IF Distance(soma, total) > 1
       THEN body[r] = DictSet(decoded[r].val, AvisoSoma,
                              JStr(MismatchText(CentsText(FALSE, soma),
                                                CentsText(FALSE, total))))
       ELSE body[r] = decoded[r].val

Uncoercible(v) == Coerce(v).exc # "none"

\* An element of itens that is a mapping whose preco_total does not coerce.
BadItem(res) ==
    /\ Get(res, Itens).t = "list"
    /\ \E i \in 1..Len(Get(res, Itens).v) :
          /\ IsDict(Get(res, Itens).v[i])
          /\ HasKey(Get(res, Itens).v[i], PrecoTotal)
          /\ Uncoercible(Get(Get(res, Itens).v[i], PrecoTotal))

\* C5: a mapping with itens and valor_total in which an item's preco_total or
\* valor_total does not coerce to a number is answered with the cannot-validate
\* annotation, whatever the other items are.
C5_InvalidValuesAnnotated ==
    \A r \in reqs :
        /\ DecodedOk(r)
        /\ Checked(decoded[r].val)
        /\ BadItem(decoded[r].val) \/ Uncoercible(Get(decoded[r].val, ValorTotal))
        => /\ status[r] = 200
           /\ body[r] = DictSet(decoded[r].val, AvisoSoma, MsgInvalid)

\* C6: a decoded value that is no mapping, or a mapping without itens or
\* without valor_total, is answered as decoded: nothing added, removed or changed.
C6_UncheckedReturnedAsDecoded ==
    \A r \in reqs :
        /\ DecodedOk(r)
        /\ ~(/\ IsDict(decoded[r].val)
             /\ HasKey(decoded[r].val, Itens)
             /\ HasKey(decoded[r].val, ValorTotal))
        => /\ status[r] = 200
           /\ body[r] = decoded[r].val
           /\ aviso[r] = "skipped"

\* C6 happens: a mapping with itens and without valor_total was answered.
C6_Witness ==
    \E r \in reqs :
        /\ DecodedOk(r) /\ status[r] = 200
        /\ IsDict(decoded[r].val)
        /\ HasKey(decoded[r].val, Itens) /\ ~HasKey(decoded[r].val, ValorTotal)
        /\ body[r] = decoded[r].val

\* C7: every reply is answered with a result of one of two shapes, the decoded
\* receipt (annotated or not) or the parse-failure record; no result holds
\* raw_response and error together with aviso_soma.
C7_OneOfTwoShapes ==
    \A r \in reqs :
        Replied(r) =>
            /\ status[r] = 200
            /\ IF decoded[r].ok
               THEN \/ body[r] = decoded[r].val
                    \/ /\ IsDict(body[r]) /\ HasKey(body[r], AvisoSoma)
                       /\ body[r] = DictSet(decoded[r].val, AvisoSoma, Get(body[r], AvisoSoma))
               ELSE IsDict(body[r]) /\ body[r].ks = <<RawResponse, Error>>
            /\ ~(/\ IsDict(body[r])
                 /\ HasKey(body[r], RawResponse) /\ HasKey(body[r], Error)
                 /\ HasKey(body[r], AvisoSoma))

\* C8: a reply that is valid JSON under no fence is answered with the decoded
\* structure, every key and value as decoded, but for the aviso_soma key the
\* cross-check sets.
C8_DecodedUnchanged ==
    \A r \in reqs :
        DecodedOk(r) /\ shape[r].w = "bare" =>
            /\ status[r] = 200
            /\ \/ body[r] = decoded[r].val
               \/ /\ IsDict(body[r]) /\ HasKey(body[r], AvisoSoma)
                  /\ body[r] = DictSet(decoded[r].val, AvisoSoma, Get(body[r], AvisoSoma))

\* What raised into the except clause of line 117, when something did.
Failures == {"open", "read", "write", "stat", "chat", "sanitize"}

C10_OwnBytesAtModelCall ==
    \A r \in reqs : seen[r].got => seen[r].bytes = upload[r]

====
